---- MODULE Spec2Model ----
(***************************************************************************)
(* Model of the two Express servers of LibroyPuntoServer.                  *)
(*                                                                         *)
(*   server.js            the /epubs_content/:bookId/* gateway: token      *)
(*                        validation, path containment check, fs.readFile  *)
(*   unnamed/part_000     GET /api/v1/books/:bookId/data: catalog lookup,  *)
(*                        fs.stat, read stream piped to the response       *)
(*                                                                         *)
(* JavaScript strings are modelled as sequences of one-character strings,  *)
(* so that String.split, parseInt, path.join and String.startsWith are     *)
(* computed character by character as Node computes them.                  *)
(***************************************************************************)
EXTENDS Integers, Sequences, FiniteSets

----------------------------------------------------------------------------
(* Bounds of the model *)

\* Date.now() ranges over 0..MaxNow
MaxNow == 3
\* a token carries 1..MaxTail segments after the expiration segment
MaxTail == 2
\* number of concurrent requests to /api/v1/books/:bookId/data
NumReq == 2
\* number of chunks a read stream delivers at most
MaxChunks == 2

----------------------------------------------------------------------------
(* Strings *)

\* the value of a query parameter or header that was not sent
undefined == <<"undefined">>
\* req.query.userToken when the parameter is repeated (?userToken=a&userToken=b):
\* the query parser yields an array, which has no split method
ArrayValue == <<"Array">>
EmptyString == << >>

IsString(v) == v # undefined /\ v # ArrayValue

\* JavaScript truthiness of a value that is undefined, an array or a string
Truthy(v) == v # undefined /\ v # EmptyString

RECURSIVE IndexOf(_, _, _)
\* first position >= i of character c in s, 0 when there is none
IndexOf(s, c, i) ==
    IF i > Len(s) THEN 0
    ELSE IF s[i] = c THEN i
    ELSE IndexOf(s, c, i + 1)

RECURSIVE split(_, _)
\* String.prototype.split with a one-character separator
split(s, sep) ==
    LET i == IndexOf(s, sep, 1) IN
    IF i = 0 THEN <<s>>
    ELSE <<SubSeq(s, 1, i - 1)>> \o split(SubSeq(s, i + 1, Len(s)), sep)

RECURSIVE join(_, _)
\* Array.prototype.join with a one-character separator
join(parts, sep) ==
    IF parts = << >> THEN << >>
    ELSE IF Len(parts) = 1 THEN parts[1]
    ELSE parts[1] \o <<sep>> \o join(Tail(parts), sep)

\* String.prototype.startsWith
startsWith(s, prefix) ==
    /\ Len(prefix) <= Len(s)
    /\ SubSeq(s, 1, Len(prefix)) = prefix

----------------------------------------------------------------------------
(* parseInt(string, 10) *)

Digits == {"0", "1", "2", "3", "4", "5", "6", "7", "8", "9"}

DigitVal(c) ==
    CASE c = "0" -> 0 [] c = "1" -> 1 [] c = "2" -> 2 [] c = "3" -> 3
      [] c = "4" -> 4 [] c = "5" -> 5 [] c = "6" -> 6 [] c = "7" -> 7
      [] c = "8" -> 8 [] c = "9" -> 9

NaN == [isNaN |-> TRUE, val |-> 0]
Num(n) == [isNaN |-> FALSE, val |-> n]

RECURSIVE SkipSpaces(_)
SkipSpaces(s) ==
    IF s # << >> /\ Head(s) = " " THEN SkipSpaces(Tail(s)) ELSE s

RECURSIVE DigitPrefix(_, _)
\* the value of the longest prefix of digits of s, read after the digits acc
DigitPrefix(s, acc) ==
    IF s = << >> \/ Head(s) \notin Digits THEN acc
    ELSE DigitPrefix(Tail(s), acc * 10 + DigitVal(Head(s)))

\* parseInt(s, 10): leading white space is skipped, one sign is accepted, then
\* the longest run of digits is read and whatever follows it is ignored; the
\* result is NaN only when no digit is found
parseInt(s) ==
    LET t == SkipSpaces(s)
        neg == t # << >> /\ Head(t) = "-"
        signed == t # << >> /\ Head(t) \in {"-", "+"}
        d == IF signed THEN Tail(t) ELSE t
    IN  IF d = << >> \/ Head(d) \notin Digits THEN NaN
        ELSE IF neg THEN Num(0 - DigitPrefix(d, 0))
        ELSE Num(DigitPrefix(d, 0))

----------------------------------------------------------------------------
(* path.join (POSIX) *)

Dot == <<".">>
DotDot == <<".", ".">>

Last(s) == s[Len(s)]
Front(s) == SubSeq(s, 1, Len(s) - 1)

RECURSIVE normalizeString(_, _, _)
\* the segments of a path with '.' and empty segments dropped and '..' resolved
normalizeString(segs, acc, allowAboveRoot) ==
    IF segs = << >> THEN acc
    ELSE LET c == Head(segs)
             rest == Tail(segs)
         IN  IF c = EmptyString \/ c = Dot
                 THEN normalizeString(rest, acc, allowAboveRoot)
             ELSE IF c = DotDot
                 THEN IF acc # << >> /\ Last(acc) # DotDot
                          THEN normalizeString(rest, Front(acc), allowAboveRoot)
                      ELSE IF allowAboveRoot
                          THEN normalizeString(rest, Append(acc, DotDot), allowAboveRoot)
                      ELSE normalizeString(rest, acc, allowAboveRoot)
             ELSE normalizeString(rest, Append(acc, c), allowAboveRoot)

\* path.normalize: a trailing separator is kept
normalize(p) ==
    IF p = << >> THEN Dot
    ELSE LET isAbsolute == Head(p) = "/"
             trailingSeparator == Last(p) = "/"
             n == join(normalizeString(split(p, "/"), << >>, ~isAbsolute), "/")
         IN  IF n = << >>
                 THEN IF isAbsolute THEN <<"/">>
                      ELSE IF trailingSeparator THEN <<".", "/">> ELSE Dot
             ELSE (IF isAbsolute THEN <<"/">> ELSE << >>) \o n
                  \o (IF trailingSeparator THEN <<"/">> ELSE << >>)

\* path.join: the non-empty arguments joined by '/', then normalized
path_join(args) ==
    LET nonEmpty == SelectSeq(args, LAMBDA a : a # EmptyString)
    IN  IF nonEmpty = << >> THEN Dot ELSE normalize(join(nonEmpty, "/"))

\* __dirname of server.js (an absolute directory, here /s)
dirname == <<"/", "s">>
\* the directory name 'epubs_descomprimidos', abbreviated to 'e'
epubs_descomprimidos == <<"e">>

----------------------------------------------------------------------------
(* server.js: the /epubs_content/:bookId/* gateway *)

VARIABLES
    pc,         \* "idle", "reading" (fs.readFile pending), "done", "threw"
    req,        \* the request: bookId, query userToken, authorization, path, now
    userToken,  \* the credential the handler validates
    res,        \* the response: status (0 = none yet) and body
    sent,       \* number of responses sent for the request
    readFile    \* the path handed to fs.readFile, NoFile when none was

gvars == <<pc, req, userToken, res, sent, readFile>>

\* state of the server of unnamed/part_000, a separate program
VARIABLES
    dreq,       \* per request: pc, bookId, status, headersSent, attempts, chunks
    crashed     \* the process died of an uncaught exception

dvars == <<dreq, crashed>>

NoFile == <<"none">>
NoResponse == [status |-> 0, body |-> "none"]
NoRequest == [bookId |-> undefined, query |-> undefined, authorization |-> undefined,
              path |-> undefined, now |-> 0]

\* the bodies of the responses, by the message each sends
MsgNoToken == "Acceso denegado: Token de usuario no proporcionado."
MsgInvalidOrWrongBook == "Acceso denegado: Token invalido o no corresponde al libro."
MsgExpiredOrInvalid == "Acceso denegado: Token expirado o invalido."
MsgWrongBook == "Acceso denegado: Token no valido para este libro."
MsgBadPath == "Ruta de archivo no valida."
MsgNotFound == "Archivo del libro no encontrado."
FileData == "data"

\* mutant: the header takes precedence over the query parameter
chooseToken_headerFirst(q, h) == IF Truthy(h) THEN h ELSE q

\* req.query.userToken || req.headers.authorization
chooseToken(q, h) == IF Truthy(q) THEN q ELSE h

\* mutant: the first check looks at the number of segments only
badFormat_lengthOnly(tokenParts, bookId) ==
    Len(tokenParts) < 4

\* mutant: a token must have exactly four segments
badFormat_exactlyFour(tokenParts, bookId) ==
    Len(tokenParts) # 4 \/ tokenParts[1] # bookId

\* mutant: three segments are enough
badFormat_threeSegments(tokenParts, bookId) ==
    Len(tokenParts) < 3 \/ tokenParts[1] # bookId

\* tokenParts.length < 4 || tokenParts[0] !== bookId
badFormat(tokenParts, bookId) ==
    Len(tokenParts) < 4 \/ tokenParts[1] # bookId

\* mutant: the token is already expired at its expiration instant
expiredOrNaN_inclusive(expirationTimestamp, currentTime) ==
    expirationTimestamp.isNaN \/ currentTime >= expirationTimestamp.val

\* isNaN(expirationTimestamp) || currentTime > expirationTimestamp
expiredOrNaN(expirationTimestamp, currentTime) ==
    expirationTimestamp.isNaN \/ currentTime > expirationTimestamp.val

\* path.join(__dirname, 'epubs_descomprimidos', bookId)
safeBaseOf(bookId) == path_join(<<dirname, epubs_descomprimidos, bookId>>)

\* path.join(__dirname, 'epubs_descomprimidos', bookId, relativePath)
fullFilePathOf(bookId, relativePath) ==
    path_join(<<dirname, epubs_descomprimidos, bookId, relativePath>>)

\* !fullFilePath.startsWith(safeBase)
traversal(fullFilePath, safeBase) == ~startsWith(fullFilePath, safeBase)

Sent(status, body, tok) ==
    [kind |-> "sent", status |-> status, body |-> body, file |-> NoFile, userToken |-> tok]

\* The synchronous part of the handler, from the request to its first return,
\* throw or call of fs.readFile.
handler(bookId, q, h, relativePath, currentTime) ==
    LET tok == chooseToken(q, h) IN
    IF ~Truthy(tok) THEN Sent(403, MsgNoToken, tok)
    ELSE IF ~IsString(tok)
        \* userToken.split is not a function: TypeError
        THEN [kind |-> "threw", status |-> 0, body |-> "none", file |-> NoFile,
              userToken |-> tok]
    ELSE LET tokenParts == split(tok, "_") IN
    IF badFormat(tokenParts, bookId) THEN Sent(403, MsgInvalidOrWrongBook, tok)
    ELSE LET tokenBookId == tokenParts[1]
             expirationTimestamp == parseInt(tokenParts[3])
         IN
    IF expiredOrNaN(expirationTimestamp, currentTime)
        THEN Sent(403, MsgExpiredOrInvalid, tok)
    ELSE IF tokenBookId # bookId THEN Sent(403, MsgWrongBook, tok)
    ELSE LET fullFilePath == fullFilePathOf(bookId, relativePath)
             safeBase == safeBaseOf(bookId)
         IN
    IF traversal(fullFilePath, safeBase) THEN Sent(400, MsgBadPath, tok)
    ELSE [kind |-> "read", status |-> 0, body |-> "none", file |-> fullFilePath,
          userToken |-> tok]

(* Inputs *)

b == <<"b">>
bb == <<"b", "b">>
u == <<"u">>
x == <<"x">>
a == <<"a">>
nonce == <<"n">>

\* the :bookId parameter matches any non-empty run of characters other than '/'
BookIds == {b, bb, DotDot}

\* expiration segments: empty, decimal, digits followed by a letter, negative,
\* not a number
ExpSegs == {EmptyString} \cup {<<"0">>, <<"2">>, <<"1", "x">>, <<"-", "1">>, x}

\* 1..MaxTail trailing segments
Tails == {[i \in 1..n |-> nonce] : n \in 1..MaxTail}

\* tokens of at least four segments
LongTokens ==
    {join(<<s0, s1, s2>> \o t, "_") :
        s0 \in BookIds, s1 \in {EmptyString, u}, s2 \in ExpSegs, t \in Tails}

\* tokens of fewer than four segments
ShortTokens ==
    {join(p, "_") : p \in {<<b>>, <<bb>>, <<b, u>>, <<b, u, <<"2">>>>, <<bb, u, <<"2">>>>}}

QueryValues == LongTokens \cup ShortTokens \cup {undefined, EmptyString, ArrayValue}

\* a header is a string or is not sent
HeaderValues ==
    {undefined, EmptyString, join(<<b, u, <<"2">>, nonce>>, "_")}

\* req.path: the part of the URL after /epubs_content/:bookId; the URL is not
\* normalized by the server, so '..' and empty segments arrive as sent
Paths ==
    {<<"/">> \o join(p, "/") :
        p \in {<<x>>, <<a, x>>, <<Dot, x>>, <<a, DotDot>>, <<DotDot>>,
               <<DotDot, bb, x>>, <<DotDot, DotDot, x>>, <<a, DotDot, DotDot, x>>,
               <<a, EmptyString, DotDot, DotDot, x>>, <<EmptyString>>}}

(* Actions *)

\* A request arrives and the handler runs to its first return, throw or
\* fs.readFile call.
Handle(bookId, q, h, relativePath, currentTime) ==
    /\ pc = "idle"
    /\ LET r == handler(bookId, q, h, relativePath, currentTime) IN
        /\ req' = [bookId |-> bookId, query |-> q, authorization |-> h,
                   path |-> relativePath, now |-> currentTime]
        /\ userToken' = r.userToken
        /\ res' = [status |-> r.status, body |-> r.body]
        /\ sent' = IF r.kind = "sent" THEN 1 ELSE 0
        /\ readFile' = r.file
        /\ pc' = CASE r.kind = "sent" -> "done"
                   [] r.kind = "read" -> "reading"
                   [] r.kind = "threw" -> "threw"
    /\ UNCHANGED dvars

\* The callback of fs.readFile: 404 on an error, else the data.
ReadFileCallback(err) ==
    /\ pc = "reading"
    /\ res' = IF err THEN [status |-> 404, body |-> MsgNotFound]
              ELSE [status |-> 200, body |-> FileData]
    /\ sent' = sent + 1
    /\ pc' = "done"
    /\ UNCHANGED <<req, userToken, readFile>>
    /\ UNCHANGED dvars

\* The request is over; the server waits for the next one.
Retire ==
    /\ pc \in {"done", "threw"}
    /\ pc' = "idle"
    /\ req' = NoRequest
    /\ userToken' = undefined
    /\ res' = NoResponse
    /\ sent' = 0
    /\ readFile' = NoFile
    /\ UNCHANGED dvars

GInit ==
    /\ pc = "idle"
    /\ req = NoRequest
    /\ userToken = undefined
    /\ res = NoResponse
    /\ sent = 0
    /\ readFile = NoFile

GNext ==
    \/ /\ pc = "idle"
       /\ \E bookId \in BookIds, q \in QueryValues, h \in HeaderValues,
             relativePath \in Paths, currentTime \in 0..MaxNow :
               Handle(bookId, q, h, relativePath, currentTime)
    \/ \E err \in BOOLEAN : ReadFileCallback(err)
    \/ Retire

----------------------------------------------------------------------------
(* unnamed/part_000: GET /api/v1/books/:bookId/data *)

Requests == 1..NumReq

\* the catalog; filepath is the file name below EPUB_FOLDER
books_data ==
    [book1 |-> [id |-> "book1", filepath |-> "el_quijote.epub"],
     book2 |-> [id |-> "book2", filepath |-> "cien_anios_soledad.epub"]]

\* property names every object literal inherits from Object.prototype
InheritedKeys == {"constructor"}

\* books_data[bookId]: the book, an inherited property (truthy, without a
\* filepath) or undefined
lookup(bookId) ==
    IF bookId \in DOMAIN books_data THEN [kind |-> "book", book |-> books_data[bookId]]
    ELSE IF bookId \in InheritedKeys THEN [kind |-> "inherited", book |-> books_data.book1]
    ELSE [kind |-> "undefined", book |-> books_data.book1]

DataBookIds == {"book1", "book2", "nope", "constructor"}

IdleRequest ==
    [pc |-> "idle", bookId |-> "none", status |-> 0, headersSent |-> FALSE,
     attempts |-> 0, chunks |-> 0]

\* res.status(code).json(body) while no header was sent: the one response
json(r, code) ==
    [r EXCEPT !.status = code, !.headersSent = TRUE, !.attempts = @ + 1,
              !.pc = "done"]

\* after readStream.pipe(res) began to write: res.status(500) still sets the
\* status code, then json sets a header of a response whose headers were sent
\* and throws ERR_HTTP_HEADERS_SENT inside the 'error' listener
lateJson(r, code) ==
    [r EXCEPT !.status = code, !.attempts = @ + 1, !.pc = "threw"]

\* the 'error' listener of the read stream
onStreamError(r) ==
    IF r.headersSent THEN lateJson(r, 500) ELSE json(r, 500)

\* the first write or the end of the piped stream sends the head: 200 and the
\* headers set before
pipeWrite(r) ==
    IF r.headersSent THEN r
    ELSE [r EXCEPT !.status = 200, !.headersSent = TRUE, !.attempts = @ + 1]

\* The route handler up to the fs.stat call.
DataRequest(i, bookId) ==
    /\ ~crashed
    /\ dreq[i].pc = "idle"
    /\ LET r == [dreq[i] EXCEPT !.bookId = bookId]
           found == lookup(bookId)
       IN  dreq' = [dreq EXCEPT ![i] =
                CASE found.kind = "undefined" -> json(r, 404)
                  \* path.join(EPUB_FOLDER, undefined) throws a TypeError
                  [] found.kind = "inherited" -> [r EXCEPT !.pc = "threw"]
                  [] found.kind = "book" -> [r EXCEPT !.pc = "stat"]]
    /\ UNCHANGED <<crashed, gvars>>

\* The callback of fs.stat: 404 on an error, else the headers are set and the
\* read stream is created and piped to the response.
StatCallback(i, err) ==
    /\ ~crashed
    /\ dreq[i].pc = "stat"
    /\ dreq' = [dreq EXCEPT ![i] =
            IF err THEN json(@, 404) ELSE [@ EXCEPT !.pc = "streaming"]]
    /\ UNCHANGED <<crashed, gvars>>

\* The read stream delivers a chunk, which pipe writes to the response.
StreamData(i) ==
    /\ ~crashed
    /\ dreq[i].pc = "streaming"
    /\ dreq[i].chunks < MaxChunks
    /\ dreq' = [dreq EXCEPT ![i] = [pipeWrite(@) EXCEPT !.chunks = @ + 1]]
    /\ UNCHANGED <<crashed, gvars>>

\* The read stream ends and pipe ends the response.
StreamEnd(i) ==
    /\ ~crashed
    /\ dreq[i].pc = "streaming"
    /\ dreq' = [dreq EXCEPT ![i] = [pipeWrite(@) EXCEPT !.pc = "done"]]
    /\ UNCHANGED <<crashed, gvars>>

\* The read stream fails and its 'error' listener runs; an exception thrown
\* by the listener is uncaught and ends the process.
StreamError(i) ==
    /\ ~crashed
    /\ dreq[i].pc = "streaming"
    /\ dreq' = [dreq EXCEPT ![i] = onStreamError(@)]
    /\ crashed' = dreq[i].headersSent
    /\ UNCHANGED gvars

\* The request is over.
DataRetire(i) ==
    /\ ~crashed
    /\ dreq[i].pc \in {"done", "threw"}
    /\ dreq' = [dreq EXCEPT ![i] = IdleRequest]
    /\ UNCHANGED <<crashed, gvars>>

DInit ==
    /\ dreq = [i \in Requests |-> IdleRequest]
    /\ crashed = FALSE

DNext ==
    \E i \in Requests :
        \/ \E bookId \in DataBookIds : DataRequest(i, bookId)
        \/ \E err \in BOOLEAN : StatCallback(i, err)
        \/ StreamData(i)
        \/ StreamEnd(i)
        \/ StreamError(i)
        \/ DataRetire(i)

----------------------------------------------------------------------------
(* Specifications: the two servers are separate programs *)

vars == <<gvars, dvars>>
Init == GInit /\ DInit
Next == GNext
Spec == Init /\ [][Next]_vars
NextData == DNext
SpecData == Init /\ [][NextData]_vars

----------------------------------------------------------------------------
(* Properties of the gateway *)

\* the handler has run for the current request
Handled == pc \in {"reading", "done", "threw"}

\* the validated credential is a non-empty string
TokenPresent == Handled /\ IsString(userToken) /\ Truthy(userToken)

\* the '_'-separated segments of the credential
segments == split(userToken, "_")

\* a non-empty run of decimal digits
IsDecimal(s) == s # << >> /\ \A i \in 1..Len(s) : s[i] \in Digits

RECURSIVE DecimalValue(_)
DecimalValue(s) ==
    IF s = << >> THEN 0 ELSE 10 * DecimalValue(Front(s)) + DigitVal(Last(s))

Denied(status, body) ==
    /\ pc = "done"
    /\ res = [status |-> status, body |-> body]
    /\ sent = 1
    /\ readFile = NoFile

\* the token validator let the request through to the path check
ValidatorAllowed ==
    \/ pc = "reading"
    \/ pc = "done" /\ res.status \in {400, 404, 200}

\* the directories and file name of a path
Components(p) == SelectSeq(split(p, "/"), LAMBDA c : c # EmptyString)

IsPrefixSeq(s, t) == Len(s) <= Len(t) /\ SubSeq(t, 1, Len(s)) = s

\* path p is directory root or lies below it, component by component
Within(p, root) == IsPrefixSeq(Components(root), Components(p))

(* C1: a token whose segment 0 differs from the bookId of the URL is denied
   with 403 by the format-and-book check, whatever its expiration segment and
   the current time, and no file is read. *)
C1_MismatchDenied ==
    (TokenPresent /\ segments[1] # req.bookId)
        => Denied(403, MsgInvalidOrWrongBook)

\* a well-formed, unexpired token of another book was denied
C1_Witness ==
    /\ TokenPresent
    /\ Len(segments) >= 4
    /\ segments[1] # req.bookId
    /\ IsDecimal(segments[3])
    /\ req.now <= DecimalValue(segments[3])
    /\ Denied(403, MsgInvalidOrWrongBook)

(* C2: when the canonical join of the tenant root and the sub-path is neither
   the root nor below it component by component, the request is denied with
   400 and no file is read. *)
C2_TraversalDenied ==
    (ValidatorAllowed
        /\ ~Within(fullFilePathOf(req.bookId, req.path), safeBaseOf(req.bookId)))
        => Denied(400, MsgBadPath)

(* C3: for a token of at least 4 segments whose segment 0 is the bookId and
   whose segment 2 is a decimal integer E, the request is denied as expired
   exactly when now > E; at now = E it is allowed. *)
C3_ExpirationBoundary ==
    (TokenPresent /\ Len(segments) >= 4 /\ segments[1] = req.bookId
        /\ IsDecimal(segments[3]))
        => LET E == DecimalValue(segments[3]) IN
            /\ (req.now > E) <=> Denied(403, MsgExpiredOrInvalid)
            /\ (req.now <= E) <=> ValidatorAllowed

\* a request arriving exactly at the expiration instant was allowed
C3_Witness ==
    /\ TokenPresent /\ Len(segments) >= 4 /\ segments[1] = req.bookId
    /\ IsDecimal(segments[3])
    /\ req.now = DecimalValue(segments[3])
    /\ req.now > 0
    /\ ValidatorAllowed

(* C4: a token of 4 or more segments whose segment 0 is the bookId and whose
   segment 2 is a decimal integer E with now <= E is allowed, whatever its
   segment 1 and its segments 3 and beyond. *)
C4_WellFormedAllowed ==
    (TokenPresent /\ Len(segments) >= 4 /\ segments[1] = req.bookId
        /\ IsDecimal(segments[3]) /\ req.now <= DecimalValue(segments[3]))
        => ValidatorAllowed /\ res.status # 403

\* a token of five or more segments with an empty user segment was allowed
C4_Witness ==
    /\ TokenPresent /\ Len(segments) >= 5 /\ segments[1] = req.bookId
    /\ segments[2] = EmptyString
    /\ IsDecimal(segments[3]) /\ req.now <= DecimalValue(segments[3])
    /\ ValidatorAllowed

(* C5: a token of at least 4 segments whose segment 0 is the bookId and whose
   segment 2 is not a non-negative decimal integer is denied for every
   current time and never allowed. *)
C5_MalformedExpirationDenied ==
    (TokenPresent /\ Len(segments) >= 4 /\ segments[1] = req.bookId
        /\ ~IsDecimal(segments[3]))
        => Denied(403, MsgExpiredOrInvalid)

\* a token of four segments for another book than bookId
otherBookToken(bookId) ==
    join(<<(IF bookId = b THEN bb ELSE b), u, <<"2">>, nonce>>, "_")

\* the response a 4-segment token with a differing segment 0 receives
mismatchResponse ==
    LET r == handler(req.bookId, otherBookToken(req.bookId), undefined, req.path,
                     req.now)
    IN  [status |-> r.status, body |-> r.body]

(* C6 as stated: a token of fewer than 4 segments is denied, whether or not
   its segment 0 is the bookId, with a response distinguishable from the one
   given to a token of 4 or more segments with a differing segment 0. *)
C6_ShortTokenDistinguishable ==
    (TokenPresent /\ Len(segments) < 4)
        => /\ pc = "done" /\ res.status = 403 /\ readFile = NoFile
           /\ res # mismatchResponse

(* C6 as amended: a token of fewer than 4 segments is denied with 403 and no
   file read, whether or not its segment 0 is the bookId and before its
   expiration is looked at, with the very response a token of 4 or more
   segments with a differing segment 0 receives. *)
C6_ShortTokenDenied ==
    (TokenPresent /\ Len(segments) < 4)
        => /\ Denied(403, MsgInvalidOrWrongBook)
           /\ res = mismatchResponse

\* a token of three segments whose segment 0 is the bookId, not expired, was denied
C6_Witness ==
    /\ TokenPresent /\ Len(segments) = 3 /\ segments[1] = req.bookId
    /\ IsDecimal(segments[3]) /\ req.now <= DecimalValue(segments[3])
    /\ Denied(403, MsgInvalidOrWrongBook)

(* C7 as stated: the validated credential is the userToken query parameter
   whenever the request carries one, else the authorization header; with
   neither the request is denied for a missing token. *)
C7_QueryWheneverCarried ==
    Handled =>
        /\ (req.query # undefined) => userToken = req.query
        /\ (req.query = undefined) => userToken = req.authorization
        /\ (req.query = undefined /\ req.authorization = undefined)
               => Denied(403, MsgNoToken)

(* C7 as amended: the validated credential is the userToken query parameter
   whenever the request carries a non-empty one, else (parameter absent or
   empty) the authorization header; when neither holds a non-empty value the
   request is denied for a missing token and no file is read. *)
C7_CredentialPrecedence ==
    Handled =>
        /\ Truthy(req.query) => userToken = req.query
        /\ ~Truthy(req.query) => userToken = req.authorization
        /\ (~Truthy(req.query) /\ ~Truthy(req.authorization))
               <=> Denied(403, MsgNoToken)

\* both a query token and a different header token were sent, and the query
\* token decided: it is for another book and the request was denied
C7_Witness ==
    /\ Handled
    /\ Truthy(req.query) /\ Truthy(req.authorization)
    /\ IsString(req.query)
    /\ req.query # req.authorization
    /\ userToken = req.query
    /\ split(req.authorization, "_")[1] = req.bookId
    /\ Denied(403, MsgInvalidOrWrongBook)

(* C8: a file is read only after the token validator allowed the request and
   the containment check passed on that path, no file is read on a 403 or a
   400, and every request gets exactly one response, a 403, 400, 404 or 200. *)
C8_OneResponseReadAfterChecks ==
    /\ readFile # NoFile =>
          /\ TokenPresent /\ ValidatorAllowed
          /\ readFile = fullFilePathOf(req.bookId, req.path)
          /\ startsWith(readFile, safeBaseOf(req.bookId))
    /\ (Handled /\ res.status \in {403, 400}) => readFile = NoFile
    /\ sent <= 1
    /\ pc \in {"done", "threw"} => sent = 1 /\ res.status \in {403, 400, 404, 200}

\* the books base directory <__dirname>/epubs_descomprimidos
booksBase == path_join(<<dirname, epubs_descomprimidos>>)

(* C9: every path handed to fs.readFile lies strictly inside the books base
   directory epubs_descomprimidos. *)
C9_ReadInsideBooksBase ==
    readFile # NoFile =>
        /\ Within(readFile, booksBase)
        /\ Components(readFile) # Components(booksBase)

(* C10: the status and headers of a response of /api/v1/books/:bookId/data are
   written exactly once: an unknown bookId or a failing fs.stat yields a
   single 404, and a read-stream error after the headers were sent makes no
   second attempt to set a status or send a body. *)
C10_HeadWrittenOnce ==
    \A i \in Requests :
        /\ dreq[i].attempts <= 1
        /\ (dreq[i].pc \in {"done", "threw"} /\ dreq[i].bookId \notin DOMAIN books_data)
               => dreq[i].status = 404 /\ dreq[i].attempts = 1

====
